---------------------------- MODULE Spec2Model ----------------------------
(***************************************************************************)
(* Corrected calcium for hypoalbuminemia: the /calculate endpoint of       *)
(* src/main.py.  A request carries three form fields; pydantic converts    *)
(* each to a Python float (an IEEE-754 binary64 number) and checks it      *)
(* against its closed interval; the handler evaluates                      *)
(*     measured_calcium + 0.8 * (normal_albumin - serum_albumin)           *)
(* in binary64 arithmetic and rounds the sum with round(x, 1).             *)
(*                                                                         *)
(* TLC's integers are 32 bits wide, a binary64 significand is 53, so the   *)
(* significands are naturals written as little-endian sequences of limbs   *)
(* in base 2^15 and binary64 arithmetic is built on them: a float is       *)
(* [sign, m, e] of value sign * m * 2^e with 2^52 <= m < 2^53, or zero.    *)
(***************************************************************************)
EXTENDS Integers, Sequences, FiniteSets, TLC

(***************************************************************************)
(* Bounds of the model.                                                    *)
(***************************************************************************)
\* Fractional decimal digits carried by the form fields of a request.
Digits == 3
\* Half-width, in units of 10^-Digits, of the window of values taken around
\* each anchor value of a field.
Window == 1
\* Number of requests in flight at once in the concurrent specification.
NumProcs == 2

(***************************************************************************)
(* Naturals of arbitrary size: little-endian limbs, no leading zero limb,  *)
(* zero is the empty sequence.  The operations are functions, so that an   *)
(* argument is a value and not an expression.                              *)
(***************************************************************************)
Base == 2 ^ 15

Limbs == Seq(Nat)

BTrim[a \in Limbs] ==
    IF a = <<>> THEN a
    ELSE IF a[Len(a)] = 0 THEN BTrim[SubSeq(a, 1, Len(a) - 1)] ELSE a

BFromInt[n \in Nat] == IF n = 0 THEN <<>> ELSE <<n % Base>> \o BFromInt[n \div Base]

BToInt[a \in Limbs] == IF a = <<>> THEN 0 ELSE a[1] + Base * BToInt[Tail(a)]

Limb(a, i) == IF i <= Len(a) THEN a[i] ELSE 0

BAddFrom[a \in Limbs, b \in Limbs, i \in Nat, c \in Nat] ==
    IF i > Len(a) /\ i > Len(b)
    THEN (IF c = 0 THEN <<>> ELSE <<c>>)
    ELSE LET s == Limb(a, i) + Limb(b, i) + c
         IN  <<s % Base>> \o BAddFrom[a, b, i + 1, s \div Base]

BAdd[a \in Limbs, b \in Limbs] == BAddFrom[a, b, 1, 0]

\* a - b for a >= b
BSubFrom[a \in Limbs, b \in Limbs, i \in Nat, br \in Nat] ==
    IF i > Len(a) THEN <<>>
    ELSE LET d == Limb(a, i) - Limb(b, i) - br
         IN  IF d < 0 THEN <<d + Base>> \o BSubFrom[a, b, i + 1, 1]
                      ELSE <<d>> \o BSubFrom[a, b, i + 1, 0]

BSub[a \in Limbs, b \in Limbs] == BTrim[BSubFrom[a, b, 1, 0]]

BCmpFrom[a \in Limbs, b \in Limbs, i \in Nat] ==
    IF i = 0 THEN 0
    ELSE IF a[i] < b[i] THEN -1
    ELSE IF a[i] > b[i] THEN 1
    ELSE BCmpFrom[a, b, i - 1]

\* -1, 0 or 1 as a < b, a = b or a > b
BCmp[a \in Limbs, b \in Limbs] ==
    IF Len(a) < Len(b) THEN -1
    ELSE IF Len(a) > Len(b) THEN 1
    ELSE BCmpFrom[a, b, Len(a)]

\* a * c for 0 <= c <= Base
BMulSmallFrom[a \in Limbs, c \in Nat, i \in Nat, carry \in Nat] ==
    IF i > Len(a)
    THEN (IF carry = 0 THEN <<>> ELSE <<carry>>)
    ELSE LET p == a[i] * c + carry
         IN  <<p % Base>> \o BMulSmallFrom[a, c, i + 1, p \div Base]

BMulSmall[a \in Limbs, c \in Nat] ==
    IF c = 0 THEN <<>> ELSE BTrim[BMulSmallFrom[a, c, 1, 0]]

BShiftLimbs[a \in Limbs, k \in Nat] ==
    IF a = <<>> THEN <<>> ELSE [i \in 1..k |-> 0] \o a

BMulFrom[a \in Limbs, b \in Limbs, i \in Nat] ==
    IF i > Len(b) THEN <<>>
    ELSE BAdd[BShiftLimbs[BMulSmall[a, b[i]], i - 1], BMulFrom[a, b, i + 1]]

BMul[a \in Limbs, b \in Limbs] == BMulFrom[a, b, 1]

IntBitLen[n \in Nat] == IF n = 0 THEN 0 ELSE 1 + IntBitLen[n \div 2]

LimbBits == IntBitLen[Base] - 1

\* a * 2^s
BShl[a \in Limbs, s \in Nat] ==
    BShiftLimbs[BMulSmall[a, 2 ^ (s % LimbBits)], s \div LimbBits]

\* quotient and remainder of a by c, 1 <= c <= Base, from the top limb down;
\* q holds the quotient limbs found so far
BDivSmallFrom[a \in Limbs, c \in Nat, i \in Nat, r \in Nat, q \in Limbs] ==
    IF i = 0 THEN [q |-> BTrim[q], r |-> r]
    ELSE BDivSmallFrom[a, c, i - 1, (r * Base + a[i]) % c,
                       <<(r * Base + a[i]) \div c>> \o q]

BDivSmall[a \in Limbs, c \in Nat] == BDivSmallFrom[a, c, Len(a), 0, <<>>]

\* floor(a / 2^s), and whether a nonzero remainder was dropped
BShrSticky[a \in Limbs, s \in Nat] ==
    LET k    == s \div LimbBits
        low  == SubSeq(a, 1, IF k < Len(a) THEN k ELSE Len(a))
        high == IF k < Len(a) THEN SubSeq(a, k + 1, Len(a)) ELSE <<>>
        d    == BDivSmall[high, 2 ^ (s % LimbBits)]
    IN  [q |-> d.q, sticky |-> d.r # 0 \/ \E i \in 1..Len(low) : low[i] # 0]

BBitLen[a \in Limbs] ==
    IF a = <<>> THEN 0 ELSE LimbBits * (Len(a) - 1) + IntBitLen[a[Len(a)]]

BIsOdd(a) == a # <<>> /\ a[1] % 2 = 1

(***************************************************************************)
(* IEEE-754 binary64, round to nearest, ties to even.  The values of this  *)
(* program lie between 2^-110 and 2^5: no subnormal, infinity or NaN is    *)
(* produced by the arithmetic.                                             *)
(***************************************************************************)
Precision == 53

\* A Python value is tagged with its type: a float [type, sign, m, e] of
\* value sign * m * 2^e, or a str that was never converted (its text plays
\* no part).
FZero == [type |-> "float", sign |-> 0, m |-> <<>>, e |-> 0]
PyStr == [type |-> "str", sign |-> 0, m |-> <<>>, e |-> 0]

Floats == [type : {"float"}, sign : {-1, 0, 1}, m : Limbs, e : Int]

MkFloat(sign, m, e) == [type |-> "float", sign |-> sign, m |-> m, e |-> e]

\* A rounded significand r of at most Precision + 1 bits, brought back to
\* Precision bits.
Renormalized[sign \in {-1, 1}, r \in Limbs, e \in Int] ==
    IF BBitLen[r] > Precision
    THEN MkFloat(sign, BShrSticky[r, 1].q, e + 1)
    ELSE MkFloat(sign, r, e)

\* A significand with its rounding bit, and the sticky flag of what was dropped.
WithRoundingBit == [q : Limbs, sticky : BOOLEAN]

\* h.q holds Precision + 1 bits, the last one the rounding bit, and h.sticky
\* tells whether anything nonzero lies below it.
RoundedUp(h) ==
    BIsOdd(h.q) /\ (h.sticky \/ BIsOdd(BShrSticky[h.q, 1].q))

HalfRounded[h \in WithRoundingBit] ==
    IF RoundedUp(h) THEN BAdd[BShrSticky[h.q, 1].q, <<1>>] ELSE BShrSticky[h.q, 1].q

WithSticky(h, sticky) == [q |-> h.q, sticky |-> h.sticky \/ sticky]

\* The float nearest to (n + d) * 2^e, where 0 <= d < 1 and d # 0 iff sticky;
\* a natural of fewer than Precision + 2 bits must come with sticky = FALSE.
RoundNearestEven[sign \in {-1, 1}, n \in Limbs, sticky \in BOOLEAN, e \in Int] ==
    LET len == BBitLen[n] IN
    IF len = 0 THEN FZero
    ELSE IF len <= Precision
    THEN MkFloat(sign, BShl[n, Precision - len], e - (Precision - len))
    ELSE Renormalized[sign,
                      HalfRounded[WithSticky(BShrSticky[n, len - Precision - 1], sticky)],
                      e + (len - Precision)]

FNeg[x \in Floats] == [x EXCEPT !.sign = -x.sign]

\* -1, 0, 1 as |x| < |y|, |x| = |y|, |x| > |y|
FCmpAbs[x \in Floats, y \in Floats] ==
    IF x.sign = 0 THEN (IF y.sign = 0 THEN 0 ELSE -1)
    ELSE IF y.sign = 0 THEN 1
    ELSE IF x.e < y.e THEN -1
    ELSE IF x.e > y.e THEN 1
    ELSE BCmp[x.m, y.m]

\* x <= y
FLe[x \in Floats, y \in Floats] ==
    IF x.sign # y.sign THEN x.sign < y.sign
    ELSE IF x.sign >= 0 THEN FCmpAbs[x, y] <= 0
    ELSE FCmpAbs[x, y] >= 0

FMul[x \in Floats, y \in Floats] ==
    IF x.sign = 0 \/ y.sign = 0 THEN FZero
    ELSE RoundNearestEven[x.sign * y.sign, BMul[x.m, y.m], FALSE, x.e + y.e]

\* x + y for significands xm and ym aligned on the exponent e
AddAligned[xs \in {-1, 1}, xm \in Limbs, ys \in {-1, 1}, ym \in Limbs, e \in Int] ==
    IF xs = ys THEN RoundNearestEven[xs, BAdd[xm, ym], FALSE, e]
    ELSE IF BCmp[xm, ym] = 0 THEN FZero
    ELSE IF BCmp[xm, ym] > 0 THEN RoundNearestEven[xs, BSub[xm, ym], FALSE, e]
    ELSE RoundNearestEven[ys, BSub[ym, xm], FALSE, e]

Min(a, b) == IF a < b THEN a ELSE b

FAdd[x \in Floats, y \in Floats] ==
    IF x.sign = 0 THEN y
    ELSE IF y.sign = 0 THEN x
    ELSE AddAligned[x.sign, BShl[x.m, x.e - Min(x.e, y.e)],
                    y.sign, BShl[y.m, y.e - Min(x.e, y.e)], Min(x.e, y.e)]

FSub[x \in Floats, y \in Floats] == FAdd[x, FNeg[y]]

\* Guard bits kept by the decimal-to-binary conversion before it rounds.
ParseShift == 5 * LimbBits

\* The float nearest to the decimal n / 10^k, n >= 0: what float("...") and
\* a float literal of the source give.
DecToFloat[n \in Nat, k \in Nat] ==
    IF n = 0 THEN FZero
    ELSE LET d == BDivSmall[BShl[BFromInt[n], ParseShift], 10 ^ k]
         IN  RoundNearestEven[1, d.q, d.r # 0, -ParseShift]

\* The integer nearest to the natural h.q / 2, ties to even.
HalfRoundedInt[h \in WithRoundingBit] == BToInt[HalfRounded[h]]

\* The integer nearest to |x| * 10^ndigits, ties to even, decided on the exact
\* binary value of x: the digits the correctly rounded conversion of round()
\* produces.
RoundedDigits[x \in Floats, ndigits \in Nat] ==
    IF x.sign = 0 THEN 0
    ELSE IF x.e >= 0 THEN BToInt[BShl[BMulSmall[x.m, 10 ^ ndigits], x.e]]
    ELSE HalfRoundedInt[BShrSticky[BMulSmall[x.m, 10 ^ ndigits], (-x.e) - 1]]

\* The float nearest to the rounded decimal, with the sign of x.
RoundFloat[x \in Floats, ndigits \in Nat] ==
    IF x.sign < 0
    THEN FNeg[DecToFloat[RoundedDigits[x, ndigits], ndigits]]
    ELSE DecToFloat[RoundedDigits[x, ndigits], ndigits]

\* Mutant of PyRound: one digit too many is kept.
PyRoundExtraDigit(x, ndigits) == RoundFloat[x, ndigits + 1]

\* round(x, ndigits) of a float
PyRound(x, ndigits) == RoundFloat[x, ndigits]

(***************************************************************************)
(* The request: three form fields.  A field is absent, holds text that is  *)
(* no number, or holds the decimal n / 10^k.                               *)
(***************************************************************************)
Absent == [kind |-> "absent", n |-> 0, k |-> 0]
Text == [kind |-> "text", n |-> 0, k |-> 0]
Dec(n, k) == [kind |-> "dec", n |-> n, k |-> k]

Fields == {"measured_calcium", "serum_albumin", "normal_albumin"}

Literal(d) == DecToFloat[d.n, d.k]

\* Mutant of CalciumCorrectionInput: normal_albumin defaults to 4.5.
CalciumCorrectionInputOtherDefault ==
    [measured_calcium |-> [ge |-> Dec(40, 1), le |-> Dec(140, 1),
                           required |-> TRUE, default |-> Absent],
     serum_albumin    |-> [ge |-> Dec(20, 1), le |-> Dec(55, 1),
                           required |-> TRUE, default |-> Absent],
     normal_albumin   |-> [ge |-> Dec(30, 1), le |-> Dec(50, 1),
                           required |-> FALSE, default |-> Dec(45, 1)]]

\* class CalciumCorrectionInput: ge, le and default of each Field(...), the
\* literals of the source
CalciumCorrectionInput ==
    [measured_calcium |-> [ge |-> Dec(40, 1), le |-> Dec(140, 1),
                           required |-> TRUE, default |-> Absent],
     serum_albumin    |-> [ge |-> Dec(20, 1), le |-> Dec(55, 1),
                           required |-> TRUE, default |-> Absent],
     normal_albumin   |-> [ge |-> Dec(30, 1), le |-> Dec(50, 1),
                           required |-> FALSE, default |-> Dec(40, 1)]]

\* Mutant of CheckConstraints: gt and lt in place of ge and le.
CheckConstraintsExclusive(v, ge, le) ==
    IF FLe[v, ge] THEN "greater_than"
    ELSE IF FLe[le, v] THEN "less_than"
    ELSE ""

\* The constraints of a float field: ge <= v, then v <= le.
CheckConstraints(v, ge, le) ==
    IF ~FLe[ge, v] THEN "greater_than_equal"
    ELSE IF ~FLe[v, le] THEN "less_than_equal"
    ELSE ""

\* A converted value with the verdict of the field's constraints.
CheckedFloat[f \in Fields, v \in Floats] ==
    [value |-> v,
     error |-> CheckConstraints(v, Literal(CalciumCorrectionInput[f].ge),
                                   Literal(CalciumCorrectionInput[f].le))]

\* Mutant of ValidateField: text that is no number is passed on as it is.
ValidateFieldUnconverted(f, raw) ==
    IF raw.kind = "absent"
    THEN IF CalciumCorrectionInput[f].required
         THEN [value |-> PyStr, error |-> "missing"]
         ELSE [value |-> Literal(CalciumCorrectionInput[f].default), error |-> ""]
    ELSE IF raw.kind = "text"
    THEN [value |-> PyStr, error |-> ""]
    ELSE CheckedFloat[f, DecToFloat[raw.n, raw.k]]

\* Validation of one field: the value the model instance gets and the error
\* reported for the field ("" when there is none).  A default is used as it
\* is, unvalidated.
ValidateField(f, raw) ==
    IF raw.kind = "absent"
    THEN IF CalciumCorrectionInput[f].required
         THEN [value |-> PyStr, error |-> "missing"]
         ELSE [value |-> Literal(CalciumCorrectionInput[f].default), error |-> ""]
    ELSE IF raw.kind = "text"
    THEN [value |-> PyStr, error |-> "float_parsing"]
    ELSE CheckedFloat[f, DecToFloat[raw.n, raw.k]]

\* Every field of a request is validated, whatever the others are.
ValidateModel(r) == [f \in Fields |-> ValidateField(f, r[f])]

\* Mutant of ValidationErrors: validation stops at the first offending field.
ValidationErrorsFirstOnly(checked) ==
    IF checked.measured_calcium.error # ""
    THEN {[loc |-> "measured_calcium", type |-> checked.measured_calcium.error]}
    ELSE IF checked.serum_albumin.error # ""
    THEN {[loc |-> "serum_albumin", type |-> checked.serum_albumin.error]}
    ELSE IF checked.normal_albumin.error # ""
    THEN {[loc |-> "normal_albumin", type |-> checked.normal_albumin.error]}
    ELSE {}

\* The errors of a validation, one per offending field, each with its location.
ValidationErrors(checked) ==
    {[loc |-> f, type |-> checked[f].error] : f \in {g \in Fields : checked[g].error # ""}}

\* The validated model instance handed to the handler.
ModelOf(checked) == [f \in Fields |-> checked[f].value]

\* The literal 0.8 of line 78.
Coefficient == Literal(Dec(8, 1))

\* Mutant of Formula: the albumin difference is taken the other way round.
FormulaSwapped(measured_calcium, serum_albumin, normal_albumin) ==
    FAdd[measured_calcium, FMul[Coefficient, FSub[serum_albumin, normal_albumin]]]

\* Line 78: measured_calcium + 0.8 * (normal_albumin - serum_albumin)
Formula(measured_calcium, serum_albumin, normal_albumin) ==
    FAdd[measured_calcium, FMul[Coefficient, FSub[normal_albumin, serum_albumin]]]

NoResponse == [kind |-> "none", corrected_calcium |-> FZero, detail |-> {}]
UnprocessableEntity(errors) ==
    [kind |-> "ValidationError", corrected_calcium |-> FZero, detail |-> errors]
CalciumCorrectionOutput(x) ==
    [kind |-> "CorrectionResult", corrected_calcium |-> x, detail |-> {}]
InternalServerError ==
    [kind |-> "InternalServerError", corrected_calcium |-> FZero, detail |-> {}]

\* The handler body, lines 78-82.  Arithmetic on a value that is no float
\* raises TypeError, which the framework answers with a server error.
calculate_corrected_calcium(d) ==
    IF \E f \in Fields : d[f].type # "float"
    THEN InternalServerError
    ELSE CalciumCorrectionOutput(
             PyRound(Formula(d.measured_calcium, d.serum_albumin, d.normal_albumin), 1))

\* The answer to a request whose validation gave checked.
Answer(checked) ==
    IF ValidationErrors(checked) # {}
    THEN UnprocessableEntity(ValidationErrors(checked))
    ELSE calculate_corrected_calcium(ModelOf(checked))

\* The whole endpoint run alone on one request.
Endpoint(r) == CHOOSE a \in {Answer(checked) : checked \in {ValidateModel(r)}} : TRUE

(***************************************************************************)
(* The requests the model draws.                                           *)
(***************************************************************************)
Scale == 10 ^ Digits

\* The decimals within Window units of h hundredths.
Around(h) ==
    {Dec(h * 10 ^ (Digits - 2) + d, Digits) : d \in (-Window)..Window}

AroundAll(hs) == UNION {Around(h) : h \in hs}

\* Requests at and next to the ends of the three intervals, and malformed ones.
EdgeRequests ==
    [measured_calcium : AroundAll({400, 1400}) \cup {Absent, Text},
     serum_albumin : AroundAll({200, 550}) \cup {Absent, Text},
     normal_albumin : AroundAll({300, 500}) \cup {Absent, Text}]

\* Requests inside the intervals, at and next to values whose formula value
\* falls halfway between two tenths.
InnerRequests ==
    [measured_calcium : AroundAll({800, 905, 925, 935, 950, 1000}),
     serum_albumin : AroundAll({300, 350, 400}),
     normal_albumin : AroundAll({400, 450}) \cup {Absent}]

\* The scenarios of the documentation.
Scenario(m, s, n) ==
    [measured_calcium |-> Dec(m, 1), serum_albumin |-> Dec(s, 1),
     normal_albumin |-> IF n = 0 THEN Absent ELSE Dec(n, 1)]

ScenarioRequests ==
    {Scenario(95, 35, 0), Scenario(95, 35, 40), Scenario(80, 20, 40),
     Scenario(100, 55, 40), Scenario(90, 30, 45), Scenario(39, 35, 40),
     Scenario(95, 60, 40)}

Requests == EdgeRequests \cup InnerRequests \cup ScenarioRequests

\* The few requests of the concurrent specification.
FewRequests ==
    [measured_calcium : {Dec(95, 1), Dec(935, 2), Dec(39, 1)},
     serum_albumin : {Dec(35, 1), Dec(60, 1)},
     normal_albumin : {Absent, Dec(40, 1)}]

(***************************************************************************)
(* The state machine: each request is received, validated by the           *)
(* framework, and, when valid, handled.                                    *)
(***************************************************************************)
VARIABLES req, pc, data, resp
vars == <<req, pc, data, resp>>

Procs == 1..NumProcs

NoData == [f \in Fields |-> PyStr]

\* One request, drawn from Requests.
Init ==
    /\ \E r \in Requests :
           req = [i \in Procs |-> IF i = 1 THEN r ELSE [f \in Fields |-> Absent]]
    /\ pc = [i \in Procs |-> IF i = 1 THEN "received" ELSE "off"]
    /\ data = [i \in Procs |-> NoData]
    /\ resp = [i \in Procs |-> NoResponse]

\* NumProcs requests in flight, each drawn from FewRequests.
InitConc ==
    /\ req \in [Procs -> FewRequests]
    /\ pc = [i \in Procs |-> "received"]
    /\ data = [i \in Procs |-> NoData]
    /\ resp = [i \in Procs |-> NoResponse]

\* Annotated[CalciumCorrectionInput, Form()]: the framework builds and
\* validates the model, and answers 422 itself when validation fails.
Validate(i) ==
    /\ pc[i] = "received"
    /\ \E checked \in {ValidateModel(req[i])} :
       IF ValidationErrors(checked) = {}
       THEN /\ data' = [data EXCEPT ![i] = ModelOf(checked)]
            /\ pc' = [pc EXCEPT ![i] = "validated"]
            /\ resp' = resp
       ELSE /\ resp' = [resp EXCEPT ![i] = UnprocessableEntity(ValidationErrors(checked))]
            /\ pc' = [pc EXCEPT ![i] = "done"]
            /\ data' = data
    /\ req' = req

\* Mutant of Handle: the result is added to a total kept across requests.
HandleAccumulating(i) ==
    /\ pc[i] = "validated"
    /\ LET earlier == {j \in Procs : pc[j] = "done" /\ resp[j].kind = "CorrectionResult"}
           mine    == calculate_corrected_calcium(data[i])
       IN  resp' = [resp EXCEPT ![i] =
                       IF earlier = {} THEN mine
                       ELSE CalciumCorrectionOutput(
                                FAdd[mine.corrected_calcium,
                                     resp[CHOOSE j \in earlier : TRUE].corrected_calcium])]
    /\ pc' = [pc EXCEPT ![i] = "done"]
    /\ UNCHANGED <<req, data>>

\* Mutant of Handle: the model instance is read from a slot shared by the
\* requests, which holds the one validated last.
HandleShared(i) ==
    /\ pc[i] = "validated"
    /\ \E j \in Procs :
           /\ pc[j] = "validated"
           /\ resp' = [resp EXCEPT ![i] = calculate_corrected_calcium(data[j])]
    /\ pc' = [pc EXCEPT ![i] = "done"]
    /\ UNCHANGED <<req, data>>

\* The handler runs to its return without suspending.
Handle(i) ==
    /\ pc[i] = "validated"
    /\ resp' = [resp EXCEPT ![i] = calculate_corrected_calcium(data[i])]
    /\ pc' = [pc EXCEPT ![i] = "done"]
    /\ UNCHANGED <<req, data>>

Step(i) == Validate(i) \/ Handle(i)

Next == \E i \in Procs : Validate(i) \/ Handle(i)

Spec == Init /\ [][Next]_vars
SpecConc == InitConc /\ [][Next]_vars
\* Every request the server holds is eventually served: nothing in the
\* handler blocks.
FairSpec == Init /\ [][Next]_vars /\ \A i \in Procs : WF_vars(Step(i))

(***************************************************************************)
(* The documented contract, stated on the decimals of the request alone.   *)
(***************************************************************************)
\* A decimal field in units of 10^-Digits.
Units(d) == d.n * 10 ^ (Digits - d.k)

\* The documented closed intervals, in tenths.
DeclaredRange ==
    [measured_calcium |-> <<40, 140>>, serum_albumin |-> <<20, 55>>,
     normal_albumin |-> <<30, 50>>]

\* The field after the documented default substitution (normal albumin 4.0).
Substituted(f, raw) ==
    IF raw.kind = "absent" /\ f = "normal_albumin" THEN Dec(40, 1) ELSE raw

FieldAcceptable(f, raw) ==
    LET d == Substituted(f, raw) IN
    /\ d.kind = "dec"
    /\ DeclaredRange[f][1] * Scale <= 10 * Units(d)
    /\ 10 * Units(d) <= DeclaredRange[f][2] * Scale

Acceptable(r) == \A f \in Fields : FieldAcceptable(f, r[f])

\* Scale times the exact formula value in tenths:
\* 10 * (measured + 0.8 * (normal - serum)) = ExactTenths / Scale.
ExactTenths(r) ==
    10 * Units(r.measured_calcium)
      + 8 * (Units(Substituted("normal_albumin", r.normal_albumin)) - Units(r.serum_albumin))

Abs(x) == IF x < 0 THEN -x ELSE x

\* t tenths is a one-decimal value nearest to the exact value.
Nearest(t, r) == 2 * Abs(ExactTenths(r) - t * Scale) <= Scale

\* The exact value lies halfway between two adjacent one-decimal values.
Midpoint(r) == ExactTenths(r) % Scale = Scale \div 2

HalfAwayFromZero(r) == ExactTenths(r) \div Scale + 1
HalfToEven(r) ==
    LET t == ExactTenths(r) \div Scale IN IF t % 2 = 0 THEN t ELSE t + 1

\* x is the float that reads t / 10.
IsTenths(x, t) == x = DecToFloat[t, 1]

\* The tenths shown by a returned corrected_calcium.
Tenths(x) == RoundedDigits[x, 1]

Served(i) == pc[i] = "done"
Answered(i) == Served(i) /\ resp[i].kind = "CorrectionResult"
Rejected(i) == Served(i) /\ resp[i].kind = "ValidationError"
Result(i) == resp[i].corrected_calcium

IsScenario(r, m, s, n) ==
    /\ Acceptable(r)
    /\ 10 * Units(r.measured_calcium) = m * Scale
    /\ 10 * Units(r.serum_albumin) = s * Scale
    /\ 10 * Units(Substituted("normal_albumin", r.normal_albumin)) = n * Scale

\* C1: every request that passes validation is answered with the exact
\* decimal value of measured + 0.8 * (normal - serum) rounded to one decimal:
\* the nearest tenth, and at a midpoint the tenth a standard convention
\* (half to even, half away from zero) picks; (9.5, 3.5, 4.0) gives 9.9,
\* (8.0, 2.0, 4.0) gives 9.6, (10.0, 5.5, 4.0) gives 8.8 and (9.0, 3.0, 4.5)
\* gives 10.2.
C1_RoundedFormula ==
    \A i \in Procs :
        Served(i) /\ Acceptable(req[i]) =>
            /\ Answered(i)
            /\ IsTenths(Result(i), Tenths(Result(i)))
            /\ Nearest(Tenths(Result(i)), req[i])
            /\ Midpoint(req[i]) =>
                   Tenths(Result(i)) \in {HalfToEven(req[i]), HalfAwayFromZero(req[i])}
            /\ IsScenario(req[i], 95, 35, 40) => Tenths(Result(i)) = 99
            /\ IsScenario(req[i], 80, 20, 40) => Tenths(Result(i)) = 96
            /\ IsScenario(req[i], 100, 55, 40) => Tenths(Result(i)) = 88
            /\ IsScenario(req[i], 90, 30, 45) => Tenths(Result(i)) = 102

\* C2: a request produces a result if and only if each of its three fields,
\* after default substitution, lies in its closed interval; the endpoints
\* are accepted and a rejected request produces no result.
C2_AcceptedIffInRange ==
    \A i \in Procs :
        Served(i) =>
            /\ Answered(i) <=> Acceptable(req[i])
            /\ ~Acceptable(req[i]) => Rejected(i) /\ Result(i) = FZero

C2_Witness ==
    \E i \in Procs :
        /\ Answered(i)
        /\ 10 * Units(req[i].measured_calcium) = 140 * Scale
        /\ 10 * Units(req[i].serum_albumin) = 20 * Scale
        /\ req[i].normal_albumin.kind = "dec"
        /\ 10 * Units(req[i].normal_albumin) = 30 * Scale

\* C3: a request that omits normal_albumin and has valid measured_calcium and
\* serum_albumin is accepted and answered exactly as the request that passes
\* normal_albumin = 4.0; a request that omits measured_calcium or
\* serum_albumin is rejected.
C3_DefaultNormalAlbumin ==
    \A i \in Procs :
        Served(i) =>
            /\ /\ req[i].normal_albumin = Absent
               /\ FieldAcceptable("measured_calcium", req[i].measured_calcium)
               /\ FieldAcceptable("serum_albumin", req[i].serum_albumin)
               => /\ Answered(i)
                  /\ resp[i] = Endpoint([req[i] EXCEPT !.normal_albumin = Dec(40, 1)])
            /\ req[i].measured_calcium = Absent \/ req[i].serum_albumin = Absent
               => Rejected(i)

C3_Witness ==
    \E i \in Procs :
        /\ Answered(i)
        /\ req[i].normal_albumin = Absent
        /\ IsTenths(Result(i), 99)

\* C4: a rejection is a ValidationError naming exactly the fields that are
\* missing without a default, not numeric, or outside their closed interval;
\* a field that is itself valid is never named.
C4_ErrorNamesOffendingFields ==
    \A i \in Procs :
        Served(i) /\ ~Acceptable(req[i]) =>
            /\ Rejected(i)
            /\ {e.loc : e \in resp[i].detail}
                   = {f \in Fields : ~FieldAcceptable(f, req[i][f])}

C4_Witness ==
    \E i \in Procs :
        /\ Rejected(i)
        /\ {e.loc : e \in resp[i].detail} = {"measured_calcium", "normal_albumin"}
        /\ req[i].measured_calcium.kind = "dec"
        /\ FieldAcceptable("serum_albumin", req[i].serum_albumin)

\* C5: every invocation completes, with a CorrectionResult or with a
\* ValidationError and with nothing else, and a request that passed
\* validation always gets the CorrectionResult.
C5_CompletesWithOneOfTwoOutcomes ==
    <>[](\A i \in Procs :
            pc[i] # "off" =>
                /\ Served(i)
                /\ resp[i].kind \in {"CorrectionResult", "ValidationError"}
                /\ Acceptable(req[i]) => Answered(i))

C5_Witness ==
    \E i \in Procs :
        /\ Rejected(i)
        /\ req[i].measured_calcium = Text

C7_IndependentInvocations ==
    \A i \in Procs :
        /\ Served(i) => resp[i] = Endpoint(req[i])
        /\ pc[i] \in {"received", "validated"} => ENABLED Step(i)

C7_Witness ==
    \E i, j \in Procs :
        /\ Answered(i)
        /\ Answered(j)
        /\ Result(i) # Result(j)

\* C8: a returned corrected_calcium is a float that reads as a decimal with
\* exactly one fractional digit, a whole number of tenths.
C8_OneFractionalDigit ==
    \A i \in Procs :
        Answered(i) =>
            /\ Result(i).type = "float"
            /\ IsTenths(Result(i), Tenths(Result(i)))

C8_Witness ==
    \E i \in Procs :
        /\ Answered(i)
        /\ Units(req[i].measured_calcium) % (Scale \div 10) # 0
        /\ IsTenths(Result(i), Tenths(Result(i)))

\* C9: at every midpoint the returned value is the one chosen by a single
\* convention, half to even everywhere or half away from zero everywhere,
\* and off the midpoints it is the nearest tenth.
C9_OneMidpointConvention ==
    /\ \A i \in Procs :
           Answered(i) /\ Acceptable(req[i]) /\ ~Midpoint(req[i]) =>
               Nearest(Tenths(Result(i)), req[i])
    /\ \/ \A i \in Procs :
              Answered(i) /\ Acceptable(req[i]) /\ Midpoint(req[i]) =>
                  Tenths(Result(i)) = HalfToEven(req[i])
       \/ \A i \in Procs :
              Answered(i) /\ Acceptable(req[i]) /\ Midpoint(req[i]) =>
                  Tenths(Result(i)) = HalfAwayFromZero(req[i])

=============================================================================
